---- MODULE Spec2Model ----
(***************************************************************************)
(* Conway's Game of Life with pthreads (life.c).                           *)
(*                                                                         *)
(* The driver (main) seeds buffer 0 of a double-buffered (N+2) x (N+2)     *)
(* grid from drand48 after srand48(0), initialises one barrier and one     *)
(* mutex, creates num_threads workers running thread_compute, joins them   *)
(* and destroys the barrier and the mutex.  Every worker owns a row range, *)
(* applies the Life rule to its rows once per generation and adds its      *)
(* local counts into three shared counters between two barrier waits.      *)
(***************************************************************************)
EXTENDS Integers, Sequences, FiniteSets

\* ------------------------------------------------------------------ bounds

\* Largest gridsize, num_threads and num_iters drawn for a full run.
MaxN == 3
MaxThreads == 3
MaxIters == 2

\* Largest gridsize and num_threads drawn when only the row ranges are computed.
MaxPartN == 8
MaxPartThreads == 5

\* init_pct is held in eighths (init_pct = k/8 is exact in a double); the
\* values drawn are 0, 0.25, 0.5, 0.75 and 1.
PctChoices == {0, 2, 4, 6, 8}

\* ------------------------------------------------------- srand48 / drand48

\* A 48-bit value is held as four 12-bit limbs, least significant first,
\* so that every intermediate product stays below 2^31.
Limb == 2^12

\* srand48(0): X = (0 << 16) | 0x330E.
Srand48Zero == <<782, 3, 0, 0>>

\* One step of the generator: X' = (0x5DEECE66D * X + 0xB) mod 2^48.
Drand48Step(x) ==
    LET a  == <<1645, 3790, 1502, 0>>
        p1 == a[1] * x[1] + 11
        p2 == a[1] * x[2] + a[2] * x[1] + (p1 \div Limb)
        p3 == a[1] * x[3] + a[2] * x[2] + a[3] * x[1] + (p2 \div Limb)
        p4 == a[1] * x[4] + a[2] * x[3] + a[3] * x[2] + a[4] * x[1] + (p3 \div Limb)
    IN  <<p1 % Limb, p2 % Limb, p3 % Limb, p4 % Limb>>

\* The generator's state after n calls of drand48().
RECURSIVE Drand48State(_)
Drand48State(n) == IF n = 0 THEN Srand48Zero ELSE Drand48Step(Drand48State(n - 1))

\* The top three bits of the generator's state after each of the first
\* MaxN * MaxN calls (one call per interior cell), computed once.
DrandTop == [n \in 1..(MaxN * MaxN) |-> Drand48State(n)[4] \div 2^9]

\* drand48() < init_pct for the n-th call (n >= 1), with init_pct = pct/8:
\* X / 2^48 < pct / 8  iff  the top three bits of X are below pct.  drand48()
\* lies in [0, 1), so nothing is below 0 and everything is below 1.
DrandBelow(n, pct) ==
    CASE pct <= 0 -> FALSE
      [] pct >= 8 -> TRUE
      [] OTHER -> DrandTop[n] < pct

\* ------------------------------------------------------------- grid store

\* Mutation: the zeroing loops stop at gridsize, and the last row and column
\* keep what malloc returned.
ZeroGridShort(N) ==
    [b \in 0..1 |-> [i \in 0..(N + 1) |-> [j \in 0..(N + 1) |->
        IF i <= N /\ j <= N THEN 0 ELSE 1]]]

\* Both buffers zeroed, halo included (main, the first initialisation loop).
ZeroGrid(N) == [b \in 0..1 |-> [i \in 0..(N + 1) |-> [j \in 0..(N + 1) |-> 0]]]

\* The seeding loop: cell (i, j) of buffer 0 takes the ((i-1)*N + j)-th draw.
SeedGrid(N, pct) ==
    [b \in 0..1 |-> [i \in 0..(N + 1) |-> [j \in 0..(N + 1) |->
        IF b = 0 /\ i \in 1..N /\ j \in 1..N
        THEN (IF DrandBelow((i - 1) * N + j, pct) THEN 1 ELSE 0)
        ELSE ZeroGrid(N)[b][i][j]]]]

\* Sum of the cells of buffer b over a set of rows and columns 1..N.
RECURSIVE SumRow(_, _, _, _)
SumRow(g, b, i, j) == IF j = 0 THEN 0 ELSE g[b][i][j] + SumRow(g, b, i, j - 1)

RECURSIVE SumRows(_, _, _, _)
SumRows(g, b, i, N) == IF i = 0 THEN 0 ELSE SumRow(g, b, i, N) + SumRows(g, b, i - 1, N)

\* live_count as main leaves it after seeding.
InitialLive(N, pct) == SumRows(SeedGrid(N, pct), 0, N, N)

\* ---------------------------------------------------------- row partition

StartRow(t, N, k) == (t * N) \div k + 1

\* Mutation: the range ends one row late.
EndRowOneMore(t, N, k) == StartRow(t, N, k) + N \div k

EndRow(t, N, k) == StartRow(t, N, k) + N \div k - 1

\* ------------------------------------------------------------------ state

VARIABLES
    num_threads,        \* argv[1]
    gridsize,           \* argv[2]
    init_pct,           \* argv[3], in eighths
    num_iters,          \* argv[4]
    grid,               \* grid[b][i][j], b in 0..1
    live_count, birth_count, death_count,
    barrier_rc,         \* "none" before pthread_barrier_init, then "ok" or "fail"
    barrier_count,      \* the count the barrier was initialised with
    waiting,            \* the workers blocked in pthread_barrier_wait
    mutex,              \* the set holding the mutex's owner, {} when unlocked
    main_pc,            \* the driver's position
    thread,             \* the driver's loop variable (create loop, join loop)
    exit_status,        \* the process's status once main_pc = "exited"
    out, err,           \* what was written to stdout and to stderr
    pc,                 \* pc[t]: worker t's position, "none" before it is created
    start_row, end_row, curr, prev, iter, row,
    local_live_count, local_birth_count, local_death_count,
    args,               \* the printf arguments of the statistics line read so far
    contrib,            \* history: contrib[t][g], the local counts t added for generation g
    waits               \* history: waits[t], the barrier waits t has returned from

vars == <<num_threads, gridsize, init_pct, num_iters, grid, live_count, birth_count,
          death_count, barrier_rc, barrier_count, waiting, mutex, main_pc, thread,
          exit_status, out, err, pc, start_row, end_row, curr, prev, iter, row,
          local_live_count, local_birth_count, local_death_count, args, contrib, waits>>

input_vars == <<num_threads, gridsize, init_pct, num_iters>>
main_vars == <<barrier_rc, barrier_count, main_pc, thread, exit_status, err>>
counter_vars == <<live_count, birth_count, death_count>>
local_vars == <<start_row, end_row, curr, prev, iter, row,
                local_live_count, local_birth_count, local_death_count>>

Threads == 0..(num_threads - 1)

NoCounts == [live |-> 0, died |-> 0, born |-> 0]

\* One line of stdout; by is the worker that wrote it, -1 for the driver.
Line(kind, by, gen, c) ==
    [kind |-> kind, by |-> by, gen |-> gen, live |-> c.live, died |-> c.died, born |-> c.born]

\* The state in which the driver is at mpc, the barrier's initialisation has
\* returned brc and every worker is at wpc, for the given arguments.
StateWith(k, N, pct, n, mpc, brc, wpc) ==
    /\ num_threads = k
    /\ gridsize = N
    /\ init_pct = pct
    /\ num_iters = n
    /\ grid = SeedGrid(N, pct)
    /\ live_count = InitialLive(N, pct)
    /\ birth_count = 0
    /\ death_count = 0
    /\ barrier_rc = brc
    /\ barrier_count = (IF brc = "ok" THEN k ELSE 0)
    /\ waiting = {}
    /\ mutex = {}
    /\ main_pc = mpc
    /\ thread = 0
    /\ exit_status = 0
    /\ out = <<Line("initial", -1, 0, [live |-> InitialLive(N, pct), died |-> 0, born |-> 0])>>
    /\ err = <<>>
    /\ pc = [t \in 0..(k - 1) |-> wpc]
    /\ start_row = [t \in 0..(k - 1) |-> 0]
    /\ end_row = [t \in 0..(k - 1) |-> 0]
    /\ curr = [t \in 0..(k - 1) |-> 0]
    /\ prev = [t \in 0..(k - 1) |-> 0]
    /\ iter = [t \in 0..(k - 1) |-> 0]
    /\ row = [t \in 0..(k - 1) |-> 0]
    /\ local_live_count = [t \in 0..(k - 1) |-> 0]
    /\ local_birth_count = [t \in 0..(k - 1) |-> 0]
    /\ local_death_count = [t \in 0..(k - 1) |-> 0]
    /\ args = [live |-> -1, died |-> -1, born |-> -1]
    /\ contrib = [t \in 0..(k - 1) |-> [g \in 1..n |-> NoCounts]]
    /\ waits = [t \in 0..(k - 1) |-> 0]

\* main up to the "Initial grid has ..." line.
InitWith(k, N, pct, n) == StateWith(k, N, pct, n, "barrier_init", "none", "none")

Init ==
    \E k \in 0..MaxThreads, N \in 1..MaxN, pct \in PctChoices, n \in 0..MaxIters :
        InitWith(k, N, pct, n)

Running == main_pc # "exited"

\* --------------------------------------------------------- transition rule

\* Mutation: the cell itself is counted among its neighbours.
NeighCountWithSelf(g, p, i, j) ==
    g[p][i - 1][j - 1] + g[p][i - 1][j] + g[p][i - 1][j + 1]
    + g[p][i][j - 1] + g[p][i][j] + g[p][i][j + 1]
    + g[p][i + 1][j - 1] + g[p][i + 1][j] + g[p][i + 1][j + 1]

\* The sum of the eight neighbours of (i, j) in buffer p.
NeighCount(g, p, i, j) ==
    g[p][i - 1][j - 1] + g[p][i - 1][j] + g[p][i - 1][j + 1]
    + g[p][i][j - 1] + g[p][i][j + 1]
    + g[p][i + 1][j - 1] + g[p][i + 1][j] + g[p][i + 1][j + 1]

\* Mutation: case 2 has no break and falls through to case 3.
NewStateFallThrough(neigh_count, old) == IF neigh_count \in {2, 3} THEN 1 ELSE 0

\* The value the switch writes to grid[curr][i][j].
NewState(neigh_count, old) ==
    CASE neigh_count = 2 -> old
      [] neigh_count = 3 -> 1
      [] OTHER -> 0

\* Mutation: a cell with three live neighbours counts as born even if it was
\* live already.
BirthIncAlways(neigh_count, old) == IF neigh_count = 3 THEN 1 ELSE 0

\* local_birth_count++ under case 3.
BirthInc(neigh_count, old) == IF neigh_count = 3 /\ old = 0 THEN 1 ELSE 0

\* local_death_count++ under default.
DeathInc(neigh_count, old) == IF neigh_count \notin {2, 3} /\ old # 0 THEN 1 ELSE 0

\* Mutation: the row is updated in place, in the buffer that is being read.
WriteRowInPlace(g, p, c, i, N) ==
    [g EXCEPT ![p][i] =
        [j \in 0..(N + 1) |->
            IF j \in 1..N THEN NewState(NeighCount(g, p, i, j), g[p][i][j]) ELSE g[p][i][j]]]

\* The j loop on row i: every cell (i, 1..N) of buffer c is written from its
\* neighbourhood in buffer p.  The loop reads p and writes c, and c = 1 - p, so
\* no cell it reads is one it has written.
WriteRow(g, p, c, i, N) ==
    [g EXCEPT ![c][i] =
        [j \in 0..(N + 1) |->
            IF j \in 1..N THEN NewState(NeighCount(g, p, i, j), g[p][i][j]) ELSE g[c][i][j]]]

\* What the j loop on row i adds to local_live_count (columns 1..j).
RECURSIVE RowLive(_, _, _, _)
RowLive(g, p, i, j) ==
    IF j = 0 THEN 0
    ELSE NewState(NeighCount(g, p, i, j), g[p][i][j]) + RowLive(g, p, i, j - 1)

\* What it adds to local_birth_count.
RECURSIVE RowBorn(_, _, _, _)
RowBorn(g, p, i, j) ==
    IF j = 0 THEN 0
    ELSE BirthInc(NeighCount(g, p, i, j), g[p][i][j]) + RowBorn(g, p, i, j - 1)

\* What it adds to local_death_count.
RECURSIVE RowDied(_, _, _, _)
RowDied(g, p, i, j) ==
    IF j = 0 THEN 0
    ELSE DeathInc(NeighCount(g, p, i, j), g[p][i][j]) + RowDied(g, p, i, j - 1)

\* for (i = ...; i <= last; i++) over whole rows, on the grid alone.
RECURSIVE RowsLoop(_, _, _, _, _, _)
RowsLoop(g, p, c, i, last, N) ==
    IF i > last THEN g ELSE RowsLoop(WriteRow(g, p, c, i, N), p, c, i + 1, last, N)

\* ----------------------------------------------------------------- worker

\* thread_compute up to the loop: the row range, curr = 0, prev = 1, iter = 1.
Partition(t) ==
    /\ Running
    /\ pc[t] = "start"
    /\ start_row' = [start_row EXCEPT ![t] = StartRow(t, gridsize, num_threads)]
    /\ end_row' = [end_row EXCEPT ![t] = EndRow(t, gridsize, num_threads)]
    /\ curr' = [curr EXCEPT ![t] = 0]
    /\ prev' = [prev EXCEPT ![t] = 1]
    /\ iter' = [iter EXCEPT ![t] = 1]
    /\ pc' = [pc EXCEPT ![t] = "loop"]
    /\ UNCHANGED <<input_vars, main_vars, counter_vars, grid, waiting, mutex, out, row,
                   local_live_count, local_birth_count, local_death_count, args,
                   contrib, waits>>

\* The loop test, the buffer swap, the progress line and the reset of the locals.
LoopHead(t) ==
    /\ Running
    /\ pc[t] = "loop"
    /\ IF iter[t] <= num_iters
       THEN /\ curr' = [curr EXCEPT ![t] = 1 - curr[t]]
            /\ prev' = [prev EXCEPT ![t] = 1 - prev[t]]
            /\ out' = IF t = 0 THEN Append(out, Line("iteration", t, iter[t], NoCounts))
                      ELSE out
            /\ local_live_count' = [local_live_count EXCEPT ![t] = 0]
            /\ local_birth_count' = [local_birth_count EXCEPT ![t] = 0]
            /\ local_death_count' = [local_death_count EXCEPT ![t] = 0]
            /\ row' = [row EXCEPT ![t] = start_row[t]]
            /\ pc' = [pc EXCEPT ![t] = IF start_row[t] <= end_row[t] THEN "compute" ELSE "zero"]
       ELSE /\ pc' = [pc EXCEPT ![t] = "done"]
            /\ UNCHANGED <<curr, prev, out, local_live_count, local_birth_count,
                           local_death_count, row>>
    /\ UNCHANGED <<input_vars, main_vars, counter_vars, grid, waiting, mutex, start_row,
                   end_row, iter, args, contrib, waits>>

\* One pass of the i loop: every cell of row row[t].
ComputeRow(t) ==
    /\ Running
    /\ pc[t] = "compute"
    /\ grid' = WriteRow(grid, prev[t], curr[t], row[t], gridsize)
    /\ local_live_count' = [local_live_count EXCEPT ![t] =
                                @ + RowLive(grid, prev[t], row[t], gridsize)]
    /\ local_birth_count' = [local_birth_count EXCEPT ![t] =
                                 @ + RowBorn(grid, prev[t], row[t], gridsize)]
    /\ local_death_count' = [local_death_count EXCEPT ![t] =
                                 @ + RowDied(grid, prev[t], row[t], gridsize)]
    /\ row' = [row EXCEPT ![t] = row[t] + 1]
    /\ pc' = [pc EXCEPT ![t] = IF row[t] + 1 <= end_row[t] THEN "compute" ELSE "zero"]
    /\ UNCHANGED <<input_vars, main_vars, counter_vars, waiting, mutex, out, start_row,
                   end_row, curr, prev, iter, args, contrib, waits>>

\* live_count = 0; death_count = 0; birth_count = 0; (no lock held).
ZeroCounters(t) ==
    /\ Running
    /\ pc[t] = "zero"
    /\ live_count' = 0
    /\ death_count' = 0
    /\ birth_count' = 0
    /\ pc' = [pc EXCEPT ![t] = "barrier1"]
    /\ UNCHANGED <<input_vars, main_vars, grid, waiting, mutex, out, local_vars, args,
                   contrib, waits>>

\* Mutation: the barrier was initialised for one thread more than there are
\* workers (the driver counted in).
BarrierCountsDriver(n) == n = barrier_count + 1

\* Mutation: pthread_barrier_wait returns at once, for every caller.
BarrierNeverWaits(n) == n >= 1

\* Whether the arrival that makes n workers present releases the barrier.
BarrierFull(n) == n = barrier_count

\* Where a worker continues when its barrier wait returns.
Resume(p) == IF p \in {"barrier1", "wait1"} THEN "lock" ELSE "stats"

\* pthread_barrier_wait: block, or release every worker that is waiting.
BarrierWait(t) ==
    /\ Running
    /\ pc[t] \in {"barrier1", "barrier2"}
    /\ LET arrived == waiting \cup {t}
       IN  IF BarrierFull(Cardinality(arrived))
           THEN /\ pc' = [u \in Threads |-> IF u \in arrived THEN Resume(pc[u]) ELSE pc[u]]
                /\ waits' = [u \in Threads |-> IF u \in arrived THEN waits[u] + 1 ELSE waits[u]]
                /\ waiting' = {}
           ELSE /\ pc' = [pc EXCEPT ![t] = IF pc[t] = "barrier1" THEN "wait1" ELSE "wait2"]
                /\ waiting' = arrived
                /\ UNCHANGED waits
    /\ UNCHANGED <<input_vars, main_vars, counter_vars, grid, mutex, out, local_vars, args,
                   contrib>>

\* Mutation: pthread_mutex_lock returns whether or not the mutex is held.
MutexIgnored == mutex = mutex

\* Whether pthread_mutex_lock may return.
MutexFree == mutex = {}

Lock(t) ==
    /\ Running
    /\ pc[t] = "lock"
    /\ MutexFree
    /\ mutex' = {t}
    /\ pc' = [pc EXCEPT ![t] = "add"]
    /\ UNCHANGED <<input_vars, main_vars, counter_vars, grid, waiting, out, local_vars, args,
                   contrib, waits>>

\* Mutation: the shared counter is assigned the local count, not increased by it.
AddedOverwrite(total, local) == local

\* A shared counter after `total += local`.
Added(total, local) == total + local

\* The three additions made while the mutex is held.
Accumulate(t) ==
    /\ Running
    /\ pc[t] = "add"
    /\ live_count' = Added(live_count, local_live_count[t])
    /\ death_count' = Added(death_count, local_death_count[t])
    /\ birth_count' = Added(birth_count, local_birth_count[t])
    /\ contrib' = [contrib EXCEPT ![t][iter[t]] =
                      [live |-> local_live_count[t], died |-> local_death_count[t],
                       born |-> local_birth_count[t]]]
    /\ pc' = [pc EXCEPT ![t] = "unlock"]
    /\ UNCHANGED <<input_vars, main_vars, grid, waiting, mutex, out, local_vars, args, waits>>

Unlock(t) ==
    /\ Running
    /\ pc[t] = "unlock"
    /\ mutex' = {}
    /\ pc' = [pc EXCEPT ![t] = "barrier2"]
    /\ UNCHANGED <<input_vars, main_vars, counter_vars, grid, waiting, out, local_vars, args,
                   contrib, waits>>

\* Mutation: the test of thread_num is missing and every worker prints.
ReporterAny(t) == t >= 0

\* Whether worker t prints (me->thread_num == 0).
Reporter(t) == t = 0

NoArgs == [live |-> -1, died |-> -1, born |-> -1]

\* Mutation: the died and born arguments of the statistics printf are swapped.
CounterSwapped(a) ==
    CASE a = "live" -> live_count
      [] a = "died" -> birth_count
      [] a = "born" -> death_count

Counter(a) ==
    CASE a = "live" -> live_count
      [] a = "died" -> death_count
      [] a = "born" -> birth_count

\* The reporter evaluates one argument of the statistics printf (the order of
\* evaluation is unspecified, and the reads hold no lock); the last read prints
\* the line and ends the iteration.
ReadCounter(t, a) ==
    /\ Running
    /\ pc[t] = "stats"
    /\ Reporter(t)
    /\ args[a] = -1
    /\ LET got == [args EXCEPT ![a] = Counter(a)]
       IN  IF \A c \in DOMAIN got : got[c] # -1
           THEN /\ out' = Append(out, Line("stats", t, iter[t], got))
                /\ args' = NoArgs
                /\ iter' = [iter EXCEPT ![t] = iter[t] + 1]
                /\ pc' = [pc EXCEPT ![t] = "loop"]
           ELSE /\ args' = got
                /\ UNCHANGED <<out, iter, pc>>
    /\ UNCHANGED <<input_vars, main_vars, counter_vars, grid, waiting, mutex, start_row,
                   end_row, curr, prev, row, local_live_count, local_birth_count,
                   local_death_count, contrib, waits>>

\* Every other worker skips the print and ends the iteration.
SkipStats(t) ==
    /\ Running
    /\ pc[t] = "stats"
    /\ ~Reporter(t)
    /\ iter' = [iter EXCEPT ![t] = iter[t] + 1]
    /\ pc' = [pc EXCEPT ![t] = "loop"]
    /\ UNCHANGED <<input_vars, main_vars, counter_vars, grid, waiting, mutex, out, start_row,
                   end_row, curr, prev, row, local_live_count, local_birth_count,
                   local_death_count, args, contrib, waits>>

\* ----------------------------------------------------------------- driver

worker_vars == <<pc, local_vars, args, contrib, waits, waiting, grid, counter_vars, out>>

\* The return value of pthread_barrier_init(&barrier, NULL, count): EINVAL for a
\* count of zero.  The driver does not look at it.
BarrierInitRc(count) == IF count = 0 THEN "fail" ELSE "ok"

BarrierInit ==
    /\ main_pc = "barrier_init"
    /\ barrier_rc' = BarrierInitRc(num_threads)
    /\ barrier_count' = IF BarrierInitRc(num_threads) = "ok" THEN num_threads ELSE 0
    /\ main_pc' = "mutex_init"
    /\ UNCHANGED <<input_vars, worker_vars, mutex, thread, exit_status, err>>

\* pthread_mutex_init(&mutex, NULL); the return value is not looked at.
MutexInit ==
    /\ main_pc = "mutex_init"
    /\ mutex' = {}
    /\ main_pc' = "create"
    /\ UNCHANGED <<input_vars, worker_vars, barrier_rc, barrier_count, thread, exit_status, err>>

\* One pass of the create loop; pthread_create may fail (rc != 0).
Create ==
    /\ main_pc = "create"
    /\ IF thread < num_threads
       THEN \E rc \in {"ok", "fail"} :
              IF rc = "ok"
              THEN /\ pc' = [pc EXCEPT ![thread] = "start"]
                   /\ thread' = thread + 1
                   /\ UNCHANGED <<main_pc, exit_status, err>>
              ELSE /\ err' = Append(err, <<"Could not create thread", thread>>)
                   /\ exit_status' = 1
                   /\ main_pc' = "exited"
                   /\ UNCHANGED <<pc, thread>>
       ELSE /\ main_pc' = "join"
            /\ thread' = 0
            /\ UNCHANGED <<pc, exit_status, err>>
    /\ UNCHANGED <<input_vars, local_vars, args, contrib, waits, waiting, grid, counter_vars,
                   out, mutex, barrier_rc, barrier_count>>

\* One pass of the join loop: pthread_join returns once the worker has returned.
Join ==
    /\ main_pc = "join"
    /\ IF thread < num_threads
       THEN /\ pc[thread] = "done"
            /\ thread' = thread + 1
            /\ UNCHANGED main_pc
       ELSE /\ main_pc' = "destroy"
            /\ UNCHANGED thread
    /\ UNCHANGED <<input_vars, worker_vars, mutex, barrier_rc, barrier_count, exit_status, err>>

\* pthread_barrier_destroy, pthread_mutex_destroy, the frees, and the end of main.
\* Destroying a barrier whose initialisation failed is undefined: the process
\* either goes on to return 0 or is killed by a signal (status 136, SIGFPE).
Destroy ==
    /\ main_pc = "destroy"
    /\ exit_status' \in (IF barrier_rc = "ok" THEN {0} ELSE {0, 136})
    /\ main_pc' = "exited"
    /\ UNCHANGED <<input_vars, worker_vars, mutex, barrier_rc, barrier_count, thread, err>>

\* ---------------------------------------------------------- specification

Next ==
    \/ BarrierInit
    \/ MutexInit
    \/ Create
    \/ Join
    \/ Destroy
    \/ \E t \in Threads : Partition(t)
    \/ \E t \in Threads : LoopHead(t)
    \/ \E t \in Threads : ComputeRow(t)
    \/ \E t \in Threads : ZeroCounters(t)
    \/ \E t \in Threads : BarrierWait(t)
    \/ \E t \in Threads : Lock(t)
    \/ \E t \in Threads : Accumulate(t)
    \/ \E t \in Threads : Unlock(t)
    \/ \E t \in Threads, a \in {"live", "died", "born"} : ReadCounter(t, a)
    \/ \E t \in Threads : SkipStats(t)

Spec == Init /\ [][Next]_vars

\* Any step of worker t, and any step of the driver.
Worker(t) ==
    /\ t \in Threads
    /\ \/ Partition(t) \/ LoopHead(t) \/ ComputeRow(t) \/ ZeroCounters(t) \/ BarrierWait(t)
       \/ Lock(t) \/ Accumulate(t) \/ Unlock(t) \/ SkipStats(t)
       \/ \E a \in {"live", "died", "born"} : ReadCounter(t, a)

Main == BarrierInit \/ MutexInit \/ Create \/ Join \/ Destroy

\* The runs with init_pct = 0.5: no worker's or driver's position depends on
\* the cells or on the counts.
FairInit ==
    \E k \in 0..MaxThreads, N \in 1..MaxN, n \in 0..MaxIters : InitWith(k, N, 4, n)

\* Every thread that can run is eventually scheduled.
FairSpec ==
    /\ FairInit
    /\ [][Next]_vars
    /\ WF_vars(Main)
    /\ \A t \in 0..(MaxThreads - 1) : WF_vars(Worker(t))

\* ------------------------------------------------- the run with one worker

\* One generation of the only worker of a num_threads = 1 run, writing buffer c.
SingleGen(g, N, c) == RowsLoop(g, 1 - c, c, StartRow(0, N, 1), EndRow(0, N, 1), N)

\* Generations it..n of that run, from grid g with current buffer c.
RECURSIVE SingleRunFrom(_, _, _, _, _)
SingleRunFrom(g, N, it, n, c) ==
    IF it > n THEN g ELSE SingleRunFrom(SingleGen(g, N, 1 - c), N, it + 1, n, 1 - c)

\* Both buffers at the end of a num_threads = 1 run.
SingleFinal(N, pct, n) == SingleRunFrom(SeedGrid(N, pct), N, 1, n, 0)

\* ----------------------------------------------------------------- claims

\* The process ended normally after a run with at least one worker.
Finished == main_pc = "exited" /\ exit_status = 0 /\ num_threads >= 1

Interior == (1..gridsize) \X (1..gridsize)

\* The sums over workers 0..t of the local counts they added for generation g.
RECURSIVE ContribUpTo(_, _)
ContribUpTo(t, g) ==
    IF t < 0 THEN NoCounts
    ELSE LET r == ContribUpTo(t - 1, g)
         IN  [live |-> r.live + contrib[t][g].live,
              died |-> r.died + contrib[t][g].died,
              born |-> r.born + contrib[t][g].born]

ContribSum(g) == ContribUpTo(num_threads - 1, g)

\* Worker t has added its local counts for generation g.
Accumulated(t, g) ==
    \/ iter[t] > g
    \/ iter[t] = g /\ pc[t] \in {"unlock", "barrier2", "wait2", "stats"}

\* C1: every statistics line the reporter prints for generation g carries the
\* sums, over all workers, of the local live, death and birth counts of g.
C1_ReportedTotalsAreSums ==
    \A n \in 1..Len(out) :
        out[n].kind = "stats" =>
            /\ out[n].live = ContribSum(out[n].gen).live
            /\ out[n].died = ContribSum(out[n].gen).died
            /\ out[n].born = ContribSum(out[n].gen).born

\* The cells worker t has visited in its current generation, while the buffer
\* it read is still the previous generation's (up to its first barrier wait).
Visited(t) ==
    IF pc[t] \in {"compute", "zero", "barrier1", "wait1"}
    THEN (start_row[t]..(row[t] - 1)) \X (1..gridsize)
    ELSE {}

\* C2: every visited cell of the current buffer is what the sum of its eight
\* neighbours in the previous buffer determines (2 keeps the state, 3 gives a
\* live cell, anything else a dead one); the local birth count is the number of
\* visited cells with sum 3 that were dead, the local death count the number
\* with a sum other than 2 and 3 that were live, and the local live count the
\* number of visited cells now live.
C2_TransitionRule ==
    \A t \in Threads :
        LET p == prev[t]
            c == curr[t]
            sum(x) == NeighCount(grid, p, x[1], x[2])
            was(x) == grid[p][x[1]][x[2]]
            now(x) == grid[c][x[1]][x[2]]
        IN  /\ \A x \in Visited(t) :
                  now(x) = (IF sum(x) = 2 THEN was(x) ELSE IF sum(x) = 3 THEN 1 ELSE 0)
            /\ Visited(t) # {} =>
                  /\ local_birth_count[t] =
                        Cardinality({x \in Visited(t) : sum(x) = 3 /\ was(x) = 0})
                  /\ local_death_count[t] =
                        Cardinality({x \in Visited(t) : sum(x) \notin {2, 3} /\ was(x) = 1})
                  /\ local_live_count[t] = Cardinality({x \in Visited(t) : now(x) = 1})

\* A worker has finished rows in which a cell was born, a cell died and a live
\* cell with two live neighbours was kept.
C2_Witness ==
    \E t \in Threads :
        /\ pc[t] = "zero"
        /\ local_birth_count[t] > 0
        /\ local_death_count[t] > 0
        /\ \E x \in Visited(t) :
              /\ NeighCount(grid, prev[t], x[1], x[2]) = 2
              /\ grid[prev[t]][x[1]][x[2]] = 1
              /\ grid[curr[t]][x[1]][x[2]] = 1

\* C3: a finished run leaves, in the buffer written by the last generation,
\* the interior that the run with one worker leaves there.
C3_SameFinalGridAsOneThread ==
    (Finished /\ num_iters >= 1) =>
        LET b == num_iters % 2
            one == SingleFinal(gridsize, init_pct, num_iters)
        IN  \A x \in Interior : grid[b][x[1]][x[2]] = one[b][x[1]][x[2]]

\* Every worker has returned from the second barrier wait of generation g and
\* none has gone on: both buffers are those of generations g-1 and g.
AllAtStats(g) == num_threads >= 1 /\ \A t \in Threads : pc[t] = "stats" /\ iter[t] = g

\* C4: the birth total of generation g is the number of interior cells dead in
\* the buffer of g-1 and live in the buffer of g, and the death total the number
\* live in the buffer of g-1 and dead in the buffer of g.
C4_TotalsMatchGridDifference ==
    \A g \in 1..num_iters :
        AllAtStats(g) =>
            LET c == g % 2
                p == 1 - c
            IN  /\ ContribSum(g).born =
                      Cardinality({x \in Interior :
                                      grid[p][x[1]][x[2]] = 0 /\ grid[c][x[1]][x[2]] = 1})
                /\ ContribSum(g).died =
                      Cardinality({x \in Interior :
                                      grid[p][x[1]][x[2]] = 1 /\ grid[c][x[1]][x[2]] = 0})

\* C5: in both buffers every cell of row 0, row gridsize+1, column 0 and column
\* gridsize+1 is dead.
C5_HaloDead ==
    \A b \in 0..1, x \in 0..(gridsize + 1) :
        /\ grid[b][0][x] = 0
        /\ grid[b][gridsize + 1][x] = 0
        /\ grid[b][x][0] = 0
        /\ grid[b][x][gridsize + 1] = 0

\* The workers have written live cells next to the halo: in the first and the
\* last row and in the first and the last column of buffer 1.
C5_Witness ==
    /\ gridsize >= 2
    /\ Finished
    /\ grid[1][1][1] = 1
    /\ grid[1][gridsize][gridsize] = 1

\* Every worker has been created: the driver is in its join loop.
AllCreated == num_threads >= 1 /\ main_pc = "join"

\* Every worker has returned after num_iters generations and two barrier waits
\* in each, and the driver has joined them all and ended.
AllReturned ==
    /\ Finished
    /\ \A t \in Threads : pc[t] = "done" /\ iter[t] = num_iters + 1 /\ waits[t] = 2 * num_iters

\* C8: once every worker is created, every worker eventually returns after
\* exactly num_iters generations with two barrier waits in each, and the
\* driver's joins return.
C8_WorkersTerminate == AllCreated ~> AllReturned

\* More workers than rows: every range is empty, and all have returned.
C8_Witness ==
    /\ gridsize < num_threads
    /\ num_iters = 2
    /\ AllReturned

\* C9: after the driver's first line, stdout is the progress line of generation
\* 1, the statistics line of generation 1, the progress line of generation 2 and
\* so on, all written by worker 0; a statistics line of g is there only when
\* every worker has added its counts for g; a finished run has written both
\* lines of every generation.
C9_OutputOrder ==
    /\ \A n \in 2..Len(out) :
          /\ out[n].by = 0
          /\ out[n].gen = n \div 2
          /\ out[n].kind = (IF n % 2 = 0 THEN "iteration" ELSE "stats")
          /\ out[n].kind = "stats" => \A t \in Threads : Accumulated(t, out[n].gen)
    /\ Len(out) <= 1 + 2 * num_iters
    /\ Finished => Len(out) = 1 + 2 * num_iters

\* Three workers, two generations, all four lines written.
C9_Witness ==
    /\ num_threads = 3
    /\ num_iters = 2
    /\ Len(out) = 5
    /\ out[5].kind = "stats"

\* C10: once the initialisation of the barrier has failed, the process has
\* reported it on stderr and exited with a non-zero status.
C10_InitFailureIsFatal ==
    barrier_rc = "fail" => (main_pc = "exited" /\ exit_status # 0 /\ Len(err) > 0)

\* C11: gridsize 3, every interior cell live, one generation, one worker: the
\* four corners are the live cells of buffer 1, and the totals of generation 1
\* (added by the worker, and printed) are living 4, died 5, born 0.
C11_AllLiveThreeByThree ==
    (num_threads = 1 /\ gridsize = 3 /\ init_pct = 8 /\ num_iters = 1 /\ Finished) =>
        /\ \A x \in Interior :
              grid[1][x[1]][x[2]] = (IF x[1] \in {1, 3} /\ x[2] \in {1, 3} THEN 1 ELSE 0)
        /\ ContribSum(1) = [live |-> 4, died |-> 5, born |-> 0]
        /\ out[3] = Line("stats", 0, 1, [live |-> 4, died |-> 5, born |-> 0])

\* That run has finished, from a seed of nine live cells.
C11_Witness ==
    /\ num_threads = 1 /\ gridsize = 3 /\ init_pct = 8 /\ num_iters = 1 /\ Finished
    /\ out[1].live = 9
    /\ pc[0] = "done"

\* The workers between pthread_mutex_lock and pthread_mutex_unlock.
InCritical == {t \in Threads : pc[t] \in {"add", "unlock"}}

\* C12: at most one worker is between the lock and the unlock of the
\* accumulate phase, and it is the one that holds the mutex.
C12_MutualExclusion ==
    /\ Cardinality(InCritical) <= 1
    /\ \A t \in InCritical : mutex = {t}

\* One worker is adding its counts while another is blocked in
\* pthread_mutex_lock.
C12_Witness ==
    \E t, u \in Threads : t # u /\ pc[t] = "add" /\ pc[u] = "lock" /\ local_live_count[u] > 0

\* The row ranges alone: every worker has been created and none has run; the
\* only steps are the workers' computations of start_row and end_row.
PartInit ==
    \E k \in 1..MaxPartThreads, N \in 1..MaxPartN :
        StateWith(k, N, 0, 0, "join", "ok", "start")

PartNext == \E t \in Threads : Partition(t)

PartSpec == PartInit /\ [][PartNext]_vars

\* ------------------------------------------------------------- row ranges

\* The rows worker t owns, once it has computed its range.
Owned(t) == start_row[t]..end_row[t]

Ranged(t) == pc[t] \notin {"none", "start"}

\* C6: the row ranges of any two workers are disjoint, every owned row lies in
\* 1..gridsize, and when num_threads divides gridsize every row of 1..gridsize
\* is owned by exactly one worker.
C6_RangesDisjointInGrid ==
    /\ \A t \in Threads : Ranged(t) => Owned(t) \subseteq 1..gridsize
    /\ \A t, u \in Threads : (Ranged(t) /\ Ranged(u) /\ t # u) => Owned(t) \cap Owned(u) = {}
    /\ ((\A t \in Threads : Ranged(t)) /\ gridsize % num_threads = 0)
          => \A r \in 1..gridsize : Cardinality({t \in Threads : r \in Owned(t)}) = 1

\* Three workers have each computed a two-row range of a six-row grid.
C6_Witness ==
    /\ num_threads = 3
    /\ gridsize = 6
    /\ \A t \in Threads : Ranged(t)
    /\ Owned(1) = 3..4

\* C7: the ranges start at row 1 and worker t+1's range starts right after worker t's, so the rows
\* owned by no worker are the highest-indexed ones.
C7_Contiguous ==
    (\A t \in Threads : Ranged(t)) =>
        /\ start_row[0] = 1
        /\ \A t \in Threads : (t + 1) \in Threads => start_row[t + 1] = end_row[t] + 1

\* Synchronisation of the generations, under Spec.

\* Worker t has executed the unlocked zeroing of the shared counters for
\* generation g.
Zeroed(t, g) ==
    \/ iter[t] > g
    \/ iter[t] = g /\ pc[t] \in {"barrier1", "wait1", "lock", "add", "unlock", "barrier2",
                                 "wait2", "stats"}

\* C13: a worker adds its local counts for generation g only when every worker
\* has zeroed the shared counters for g; and a worker about to zero them for g
\* finds no addition for g made yet and every addition for g-1 made.
C13_ZeroBeforeAccumulate ==
    /\ \A t, u \in Threads :
           (pc[t] = "add" \/ (iter[t] <= num_iters /\ Accumulated(t, iter[t]))) =>
               Zeroed(u, iter[t])
    /\ \A t, u \in Threads :
           pc[t] = "zero" =>
               /\ ~Accumulated(u, iter[t])
               /\ iter[t] >= 2 => Accumulated(u, iter[t] - 1)

\* A worker holds the mutex, about to add a nonzero count, after another worker
\* has already added for the same generation, which is not the first.
C13_Witness ==
    \E t, u \in Threads :
        /\ t # u /\ pc[t] = "add" /\ iter[t] = 2 /\ local_live_count[t] > 0
        /\ Accumulated(u, 2) /\ live_count > 0

\* The sums over workers 0..t of the local counts they hold.
RECURSIVE LocalUpTo(_)
LocalUpTo(t) ==
    IF t < 0 THEN NoCounts
    ELSE LET r == LocalUpTo(t - 1)
         IN  [live |-> r.live + local_live_count[t],
              died |-> r.died + local_death_count[t],
              born |-> r.born + local_birth_count[t]]

\* The shared counters.
Totals == [live |-> live_count, died |-> death_count, born |-> birth_count]

\* C14: when the second barrier wait of generation g has returned in every
\* worker and none has gone on, the shared counters are the sums of the
\* workers' local counts for g; and a worker is past that barrier only when
\* every worker has added its counts for g.
C14_TotalsAtSecondBarrier ==
    /\ \A g \in 1..num_iters :
           AllAtStats(g) => Totals = LocalUpTo(num_threads - 1) /\ Totals = ContribSum(g)
    /\ \A t, u \in Threads :
           /\ pc[t] = "stats" => Accumulated(u, iter[t])
           /\ (Ranged(t) /\ iter[t] >= 2) => Accumulated(u, iter[t] - 1)

\* The second barrier of generation 2 has just released three workers, at
\* least two of which added a nonzero live count.
C14_Witness ==
    /\ num_threads = 3 /\ AllAtStats(2)
    /\ \E t, u \in Threads : t # u /\ local_live_count[t] > 0 /\ local_live_count[u] > 0
    /\ args = NoArgs

\* C15: while a worker is in the compute phase of generation g, no other
\* worker in a compute phase reads the buffer it writes, and every other worker
\* is in generation g too or has returned from the second barrier wait of g-1
\* (in generation 1: or has not started).
C15_NoWriteWhileRead ==
    \A t, u \in Threads :
        pc[t] = "compute" =>
            /\ (t # u /\ pc[u] = "compute") => (curr[t] # prev[u] /\ curr[t] = curr[u])
            /\ \/ Ranged(u) /\ iter[u] = iter[t]
               \/ Ranged(u) /\ iter[u] = iter[t] - 1 /\ pc[u] = "stats"
               \/ ~Ranged(u) /\ iter[t] = 1

\* Two workers are in the compute phase of generation 2 together, one of them
\* with a live cell to read.
C15_Witness ==
    \E t, u \in Threads :
        /\ t # u /\ pc[t] = "compute" /\ pc[u] = "compute" /\ iter[t] = 2 /\ iter[u] = 2
        /\ \E j \in 1..gridsize : grid[prev[t]][row[t]][j] = 1

\* C16: a step of worker t's compute phase in generation g changes cells of
\* buffer g mod 2 only, in one row of t's range and columns 1..gridsize, and
\* what it writes and counts is determined by buffer 1 - (g mod 2) alone.
C16_Frame ==
    [][\A t \in Threads :
          (pc[t] = "compute" /\ row'[t] # row[t]) =>
              LET c == iter[t] % 2
                  p == 1 - c
                  i == row[t]
                  blank == [grid EXCEPT ![c] = ZeroGrid(gridsize)[c]]
              IN  /\ i \in StartRow(t, gridsize, num_threads)..EndRow(t, gridsize, num_threads)
                  /\ \A b \in 0..1 : \A x, y \in 0..(gridsize + 1) :
                         grid'[b][x][y] # grid[b][x][y] =>
                             b = c /\ x = i /\ y \in 1..gridsize
                  /\ \A y \in 1..gridsize :
                         grid'[c][i][y] = NewState(NeighCount(blank, p, i, y), blank[p][i][y])
                  /\ local_live_count'[t] = local_live_count[t] + RowLive(blank, p, i, gridsize)
                  /\ local_birth_count'[t] = local_birth_count[t] + RowBorn(blank, p, i, gridsize)
                  /\ local_death_count'[t] = local_death_count[t] + RowDied(blank, p, i, gridsize)
      ]_vars

\* In generation 2 a worker, not the only one, has written a row of buffer 0
\* in which a cell changed, while buffer 1 holds a live cell.
C16_Witness ==
    \E t \in Threads :
        /\ num_threads >= 2 /\ iter[t] = 2 /\ pc[t] = "zero" /\ end_row[t] >= start_row[t]
        /\ \E y \in 1..gridsize : grid[0][end_row[t]][y] # SeedGrid(gridsize, init_pct)[0][end_row[t]][y]
        /\ \E x, y \in 1..gridsize : grid[1][x][y] = 1

\* The interior rows that lie in no worker's range.
Unowned == {r \in 1..gridsize : \A t \in Threads : r \notin Owned(t)}

\* C17: when gridsize is not divisible by num_threads, then in every
\* generation g >= 1, once every worker has computed and accumulated g, the
\* rows owned by no worker hold their seeded values in the buffer that is
\* current for g.
C17_UnownedRowsKeepSeed ==
    (num_threads >= 1 /\ gridsize % num_threads # 0) =>
        \A g \in 1..num_iters :
            AllAtStats(g) =>
                \A r \in Unowned : \A j \in 1..gridsize :
                    grid[g % 2][r][j] = SeedGrid(gridsize, init_pct)[0][r][j]

\* Worker t has begun the compute phase of generation g.
Begun(t, g) ==
    \/ iter[t] > g
    \/ iter[t] = g /\ pc[t] \notin {"none", "start", "loop"}

\* C18: the generation indices of two running workers differ by at most 1,
\* and a worker has begun the compute phase of generation g+1 only when every
\* worker has added its counts for g (after its compute phase of g).
C18_LockStep ==
    /\ \A t, u \in Threads :
           (Ranged(t) /\ Ranged(u)) => (iter[t] - iter[u] \in {-1, 0, 1})
    /\ \A t, u \in Threads : \A g \in 1..(num_iters - 1) :
           Begun(t, g + 1) => (Accumulated(u, g) /\ Zeroed(u, g))

\* One worker computes generation 2 while another has not left generation 1.
C18_Witness ==
    \E t, u \in Threads :
        /\ pc[t] = "compute" /\ iter[t] = 2
        /\ pc[u] = "stats" /\ iter[u] = 1
        /\ local_live_count[u] > 0

\* C19: what the reporter reads, and prints, for the last generation is the
\* sum over all workers of their local counts for it; a worker that has left
\* the last generation touches the shared counters no more.
C19_FinalTotalsAreSums ==
    /\ \A n \in 1..Len(out) :
           (out[n].kind = "stats" /\ out[n].gen = num_iters) =>
               \A a \in {"live", "died", "born"} : out[n][a] = ContribSum(num_iters)[a]
    /\ \A t \in Threads :
           (Reporter(t) /\ pc[t] = "stats" /\ iter[t] = num_iters) =>
               \A a \in {"live", "died", "born"} :
                   args[a] # -1 => args[a] = ContribSum(num_iters)[a]
    /\ \A t \in Threads : iter[t] > num_iters => pc[t] \in {"none", "start", "loop", "done"}

\* The reporter has read a nonzero total of the last generation, the second,
\* while another worker has already returned.
C19_Witness ==
    /\ num_threads >= 2 /\ num_iters = 2
    /\ pc[0] = "stats" /\ iter[0] = 2
    /\ args["live"] > 0 /\ args["died"] # args["born"]
    /\ \E u \in Threads : pc[u] = "done"

\* C20: when gridsize is divisible by num_threads, the totals the workers have
\* added for generation g satisfy live(g) = live(g-1) + born(g) - died(g),
\* where live(0) is the count of the driver's initial line.
C20_LiveBalance ==
    (num_threads >= 1 /\ gridsize % num_threads = 0) =>
        \A g \in 1..num_iters :
            (\A u \in Threads : Accumulated(u, g)) =>
                ContribSum(g).live =
                    (IF g = 1 THEN out[1].live ELSE ContribSum(g - 1).live)
                    + ContribSum(g).born - ContribSum(g).died

\* Three workers on three rows have added the counts of two generations, the
\* first with a change of the live count, the second with deaths and survivors.
C20_Witness ==
    /\ num_threads = 3 /\ gridsize = 3 /\ num_iters = 2
    /\ \A u \in Threads : Accumulated(u, 2)
    /\ ContribSum(1).live # out[1].live
    /\ ContribSum(2).died > 0 /\ ContribSum(2).live > 0

====
